---------------------------- MODULE Spec2Model ----------------------------
(***************************************************************************)
(* Model of the three European option pricing engines of quantst:          *)
(*   core/option_pricing/BlackScholesModel.py   (BlackScholesModel)        *)
(*   core/option_pricing/BinomialTreeModel.py   (BinomialTreeModel)        *)
(*   core/option_pricing/MonteCarloSimulation.py (MonteCarloPricing)       *)
(* and of the process-wide numpy random generator MonteCarloPricing uses.  *)
(*                                                                         *)
(* Floating point numbers are modelled as fixed-point integers: the real   *)
(* number x is the integer x * SCALE, and products and quotients round as  *)
(* Mul and Div do.  np.exp, np.sqrt and np.log are computed by series on   *)
(* that representation, scipy's norm.cdf by a logistic approximation.      *)
(*                                                                         *)
(* The caller (streamlit_app.py, calculate_option_prices) selects one      *)
(* engine and constructs and queries objects of that engine only; the      *)
(* engines share no state with one another, so a behaviour of the model    *)
(* follows one selected engine.  The MonteCarloPricing objects of one      *)
(* process do share the numpy generator.  plot_simulation_results reads    *)
(* price_paths, after a simulate_price_paths(252) of its own when there    *)
(* are none; the model has simulate_price_paths and leaves the plot out.   *)
(***************************************************************************)
EXTENDS Integers, Sequences, FiniteSets, TLC

(***************************************************************************)
(* Fixed-point arithmetic                                                  *)
(***************************************************************************)
SCALE == 10 ^ 3

\* numpy's float product, rounded to the nearest representable value
Mul(a, b) == (a * b + SCALE \div 2) \div SCALE

\* numpy's float quotient a / b (b # 0); the divisor is made positive first
Div(a, b) ==
    IF b > 0 THEN (a * SCALE + b \div 2) \div b
             ELSE ((0 - a) * SCALE + (0 - b) \div 2) \div (0 - b)

Max(a, b) == IF a >= b THEN a ELSE b

Abs(a) == IF a >= 0 THEN a ELSE 0 - a

RECURSIVE IsqrtIter(_, _)
IsqrtIter(n, g) ==
    LET h == (g + n \div g) \div 2
    IN  IF h >= g THEN g ELSE IsqrtIter(n, h)

\* np.sqrt(x) for x >= 0
Sqrt(x) == IF x <= 0 THEN 0 ELSE IsqrtIter(x * SCALE, x * SCALE)

\* 1 + x + x^2/2! + ..., summed until the terms vanish (|x| <= 1/2)
RECURSIVE ExpSeries(_, _, _, _)
ExpSeries(x, term, k, acc) ==
    IF term = 0 THEN acc
    ELSE LET t == Mul(term, x) \div k
         IN  ExpSeries(x, t, k + 1, acc + t)

\* np.exp(x): e^x = (e^(x/2))^2 until |x| <= 1/2, then the power series
RECURSIVE Exp(_)
Exp(x) ==
    IF x < 0 THEN Div(SCALE, Exp(0 - x))
    ELSE IF 2 * x > SCALE
         THEN LET h == Exp(x \div 2)
                  e == Mul(h, h)
              IN  IF x % 2 = 1 THEN e + Mul(e, 1) ELSE e
         ELSE ExpSeries(x, SCALE, 1, SCALE)

HALF == SCALE \div 2

\* y + y^3/3 + y^5/5 + ..., summed until the powers vanish (|y| < 1)
RECURSIVE AtanhSeries(_, _, _, _)
AtanhSeries(y2, power, k, acc) ==
    IF power = 0 THEN acc
    ELSE AtanhSeries(y2, Mul(power, y2), k + 2, acc + power \div k)

\* np.log(x) for x > 0: ln x = 2 atanh((x - 1) / (x + 1))
Ln(x) ==
    LET y == Div(x - SCALE, x + SCALE)
    IN  2 * AtanhSeries(Mul(y, y), y, 1, 0)

\* scipy.stats.norm.cdf(x), by the logistic approximation
\* 1 / (1 + exp(-(1.5976 x + 0.07056 x^3))), saturated beyond |x| >= 4
NormCdf(x) ==
    LET ax == Abs(x)
        z  == (15976 * ax) \div 10000 + (7056 * Mul(Mul(ax, ax), ax)) \div 100000
        lo == IF ax >= 4 * SCALE THEN 0 ELSE Div(SCALE, SCALE + Exp(z))
    IN  IF x >= 0 THEN SCALE - lo ELSE lo

\* b ** n for a Python int n >= 0
RECURSIVE Pow(_, _)
Pow(b, n) == IF n = 0 THEN SCALE ELSE Mul(Pow(b, n - 1), b)

\* the float value of the Python int n
ToFloat(n) == n * SCALE

RECURSIVE Sum(_)
Sum(s) == IF s = << >> THEN 0 ELSE Head(s) + Sum(Tail(s))

\* np.mean(s)
Mean(s) == Div(Sum(s), ToFloat(Len(s)))

(***************************************************************************)
(* base.py: OPTION_TYPE, and the values a caller can pass for it           *)
(***************************************************************************)
OPTION_TYPE == {"CALL_OPTION", "PUT_OPTION"}

\* "OTHER" stands for every argument that is not a member of OPTION_TYPE
OptionArgs == OPTION_TYPE \cup {"OTHER"}

DAYS_PER_YEAR == 365

\* streamlit_app.py: the engines the caller selects from
OPTION_PRICING_MODEL == {"Black-Scholes", "Monte Carlo", "Binomial-Tree"}

(***************************************************************************)
(* The process-wide numpy generator.  np.random.seed(20) puts it at the    *)
(* start of one fixed stream of standard normal variates; rng is the       *)
(* number of variates drawn from that stream since the last seeding.       *)
(***************************************************************************)
\* np.random.seed(20); np.random.standard_normal(24), times SCALE
SeededStream ==
    << 884, 196, 358, -2343, -1085, 560, 939, -978, 503, 406, 323, -493,
       -792, -842, -1280, 246, -44, 1568, 1051, 406, -169, -3190, 1120, 1333 >>

\* np.random.standard_normal(n) with the generator at position pos
standard_normal(pos, n) == [c \in 1..n |-> SeededStream[pos + c]]

\* np.random.standard_normal(k) broadcast over the n columns: one variate
\* for each time step, the same for every path
standard_normal_per_step(pos, k, n) ==
    [t \in 1..k |-> [c \in 1..n |-> SeededStream[pos + t]]]

\* np.random.standard_normal((k, n)): k rows of n variates, row by row
standard_normal_matrix(pos, k, n) ==
    [t \in 1..k |-> [c \in 1..n |-> SeededStream[pos + (t - 1) * n + c]]]

(***************************************************************************)
(* Bounds of the model                                                     *)
(***************************************************************************)
\* largest number_of_simulations
MaxSims == 2
\* largest num_time_steps of simulate_price_paths
MaxPathSteps == 2
\* draws allowed after one seeding
MaxDraws == 6
\* largest number_of_time_steps of the binomial tree
MaxTreeSteps == 3
\* calls made in one run of the process
MaxCalls == 5

\* the MonteCarloPricing objects of the process
MCInst == {"A", "B"}

MCArgs ==
    [underlying_spot_price : {ToFloat(100)},
     strike_price          : {ToFloat(100)},
     days_to_maturity      : {365},
     risk_free_rate        : {50},
     sigma                 : {200},
     number_of_simulations : 1..MaxSims]

BSArgs ==
    [underlying_spot_price : {ToFloat(100)},
     strike_price          : {ToFloat(90), ToFloat(110)},
     days_to_maturity      : {365, 730},
     risk_free_rate        : {50, 1000},
     sigma                 : {10, 200}]

\* risk_free_rate up to 100% and sigma down to 1%: the front end's sliders
BTArgs ==
    [underlying_spot_price : {ToFloat(100)},
     strike_price          : {ToFloat(90), ToFloat(110)},
     days_to_maturity      : {365},
     risk_free_rate        : {50, 1000},
     sigma                 : {200},
     number_of_time_steps  : 1..MaxTreeSteps]
    \cup
    [underlying_spot_price : {ToFloat(100)},
     strike_price          : {ToFloat(90), ToFloat(110)},
     days_to_maturity      : {365},
     risk_free_rate        : {50},
     sigma                 : {10},
     number_of_time_steps  : 1..MaxTreeSteps]

VARIABLES
    pricing_method, \* streamlit_app.py: the engine the caller selected
    bs,             \* the BlackScholesModel object
    bt,             \* the BinomialTreeModel object
    frame,          \* BinomialTreeModel.calculate_option_price in progress
    rng,            \* the process-wide numpy generator (variates drawn)
    mc,             \* the MonteCarloPricing objects, by name
    ret,            \* the outcome of the latest call
    calls,          \* the number of calls made so far
    \* history, recorded to state the properties
    lazy_gens,      \* per object: terminal generations started by a price query
    own_draws,      \* per object: variates its own calls drew since __init__
    own_path_draws, \* per object: those of them drawn by simulate_price_paths
    gen_at,         \* per object: own_draws, own_path_draws when S_T was made
    first_query,    \* per object: its first returned price
    quoted          \* per object and type: prices returned since S_T was made

mcvars == << rng, mc, lazy_gens, own_draws, own_path_draws, gen_at,
             first_query, quoted >>

\* an object that was not constructed yet: no attribute is set
NoObject ==
    [alive |-> FALSE, S_0 |-> 0, K |-> 0, T |-> 0, r |-> 0, sigma |-> 0,
     N |-> 0, discount_factor |-> 0,
     has_S_T |-> FALSE, S_T |-> << >>,
     has_price_paths |-> FALSE, price_paths |-> << >>]

\* value is << >> for None, and for no value at all when the call raised
NoReturn == [outcome |-> "none", value |-> << >>]

Returned(v) == [outcome |-> "return", value |-> v]

Raised(x) == [outcome |-> x, value |-> << >>]

\* one more call is made
Called == calls < MaxCalls /\ calls' = calls + 1

(***************************************************************************)
(* MonteCarloSimulation.py                                                 *)
(***************************************************************************)
\* MonteCarloPricing.__init__, the attributes it sets
MC_new(a) ==
    LET T == Div(ToFloat(a.days_to_maturity), ToFloat(DAYS_PER_YEAR))
    IN  [alive |-> TRUE,
         S_0 |-> a.underlying_spot_price,
         K |-> a.strike_price,
         T |-> T,
         r |-> a.risk_free_rate,
         sigma |-> a.sigma,
         N |-> a.number_of_simulations,
         discount_factor |-> Exp(0 - Mul(a.risk_free_rate, T)),
         has_S_T |-> FALSE, S_T |-> << >>,
         has_price_paths |-> FALSE, price_paths |-> << >>]

\* the generator after the np.random.seed(20) of __init__, having been at pos
np_random_seed(pos) == 0

\* S_0 * exp((r - 0.5 * sigma ** 2) * T + sigma * sqrt(T) * Z)
TerminalPrices(self, Z) ==
    [c \in 1..Len(Z) |->
        Mul(self.S_0,
            Exp(Mul(self.r - Mul(HALF, Mul(self.sigma, self.sigma)), self.T)
                + Mul(Mul(self.sigma, Sqrt(self.T)), Z[c])))]

RECURSIVE PathRows(_, _, _, _)
\* the rows S[t], ..., S[num_time_steps] given the row before them
PathRows(self, Z, dt, prev) ==
    IF Z = << >> THEN << >>
    ELSE LET row == [c \in 1..Len(prev) |->
                        Mul(prev[c],
                            Exp(Mul(self.r - Mul(HALF, Mul(self.sigma, self.sigma)), dt)
                                + Mul(Mul(self.sigma, Sqrt(dt)), Head(Z)[c])))]
         IN  << row >> \o PathRows(self, Tail(Z), dt, row)

\* the matrix S of simulate_price_paths with the generator at pos
PricePaths(self, num_time_steps, pos) ==
    LET dt == Div(self.T, ToFloat(num_time_steps))
        S0 == [c \in 1..self.N |-> self.S_0]
        Z  == standard_normal_matrix(pos, num_time_steps, self.N)
    IN  << S0 >> \o PathRows(self, Z, dt, S0)

\* simulate_price_paths that also keeps its last row as the terminal prices
WithPaths_keeping_terminals(self, num_time_steps, pos) ==
    LET S == PricePaths(self, num_time_steps, pos)
    IN  [self EXCEPT !.has_price_paths = TRUE, !.price_paths = S,
                     !.has_S_T = TRUE, !.S_T = S[Len(S)]]

\* the object after simulate_price_paths(num_time_steps)
WithPaths(self, num_time_steps, pos) ==
    [self EXCEPT !.has_price_paths = TRUE,
                 !.price_paths = PricePaths(self, num_time_steps, pos)]

\* simulate_terminal_prices written as a one-step path simulation
WithTerminals_via_paths(self, pos) ==
    LET S == PricePaths(self, 1, pos)
    IN  [self EXCEPT !.has_price_paths = TRUE, !.price_paths = S,
                     !.has_S_T = TRUE, !.S_T = S[2]]

\* the object after simulate_terminal_prices with the generator at pos
WithTerminals(self, pos) ==
    [self EXCEPT !.has_S_T = TRUE,
                 !.S_T = TerminalPrices(self, standard_normal(pos, self.N))]

\* terminal prices simulated on every query
TerminalsMissing_always(self) == TRUE

\* the try/except of calculate_option_price: S_T is missing
TerminalsMissing(self) == ~ self.has_S_T

\* if CALL_OPTION ... else ..., with no branch that raises
MC_accepts_any(option_type) == TRUE

\* the if/elif of calculate_option_price prices this argument
MC_accepts(option_type) == option_type \in OPTION_TYPE

MC_payoffs(self, option_type) ==
    IF option_type = "CALL_OPTION"
    THEN [c \in 1..Len(self.S_T) |-> Max(self.S_T[c] - self.K, 0)]
    ELSE [c \in 1..Len(self.S_T) |-> Max(self.K - self.S_T[c], 0)]

\* discount_factor * np.mean(payoffs)
MC_price(self, option_type) ==
    Mul(self.discount_factor, Mean(MC_payoffs(self, option_type)))

NoGen == [own |-> 0, own_paths |-> 0]
NoQuote == [t \in OPTION_TYPE |-> << >>]

\* the own draws and own path draws of an object at a generation
GenNow(i) == [own |-> own_draws[i], own_paths |-> own_path_draws[i]]

\* obj = MonteCarloPricing(...)
MC_init(i, a) ==
    /\ pricing_method = "Monte Carlo"
    /\ Called
    /\ ~ mc[i].alive
    /\ mc' = [mc EXCEPT ![i] = MC_new(a)]
    /\ rng' = np_random_seed(rng)
    /\ ret' = Returned(<< >>)
    /\ UNCHANGED << bs, bt, frame, lazy_gens, own_draws, own_path_draws,
                    gen_at, first_query, quoted >>

\* obj.simulate_terminal_prices(), called by the user of the object
MC_simulate_terminal_prices(i) ==
    /\ Called
    /\ mc[i].alive
    /\ rng + mc[i].N <= MaxDraws
    /\ mc' = [mc EXCEPT ![i] = WithTerminals(mc[i], rng)]
    /\ rng' = rng + mc[i].N
    /\ own_draws' = [own_draws EXCEPT ![i] = @ + mc[i].N]
    /\ gen_at' = [gen_at EXCEPT ![i] = GenNow(i)]
    /\ quoted' = [quoted EXCEPT ![i] = NoQuote]
    /\ ret' = Returned(<< >>)
    /\ UNCHANGED << bs, bt, frame, lazy_gens, own_path_draws, first_query >>

\* calculate_option_price with the option type checked before the try/except:
\* an argument outside OPTION_TYPE raises with no terminal prices generated
MC_calculate_option_price_validating_first(i, option_type) ==
    LET self    == mc[i]
        missing == TerminalsMissing(self)
        self1   == IF missing THEN WithTerminals(self, rng) ELSE self
        at      == IF missing THEN GenNow(i) ELSE gen_at[i]
        quotes  == IF missing THEN NoQuote ELSE quoted[i]
    IN  /\ Called
        /\ self.alive
        /\ IF MC_accepts(option_type)
           THEN LET option_price == MC_price(self1, option_type)
                IN  /\ missing => rng + self.N <= MaxDraws
                    /\ mc' = [mc EXCEPT ![i] = self1]
                    /\ rng' = IF missing THEN rng + self.N ELSE rng
                    /\ own_draws' =
                         IF missing THEN [own_draws EXCEPT ![i] = @ + self.N]
                                    ELSE own_draws
                    /\ lazy_gens' =
                         IF missing THEN [lazy_gens EXCEPT ![i] = @ + 1]
                                    ELSE lazy_gens
                    /\ gen_at' = [gen_at EXCEPT ![i] = at]
                    /\ ret' = Returned(<< option_price >>)
                    /\ quoted' = [quoted EXCEPT
                                    ![i] = [quotes EXCEPT ![option_type] =
                                                Append(@, option_price)]]
                    /\ first_query' =
                         IF first_query[i] # << >> THEN first_query
                         ELSE [first_query EXCEPT ![i] =
                                 << [option_type |-> option_type,
                                     price |-> option_price, at |-> at] >>]
           ELSE /\ ret' = Raised("ValueError")
                /\ UNCHANGED << mc, rng, own_draws, lazy_gens, gen_at,
                                quoted, first_query >>
        /\ UNCHANGED << bs, bt, frame, own_path_draws >>

\* obj.calculate_option_price(option_type)
MC_calculate_option_price(i, option_type) ==
    LET self    == mc[i]
        missing == TerminalsMissing(self)
        self1   == IF missing THEN WithTerminals(self, rng) ELSE self
        at      == IF missing THEN GenNow(i) ELSE gen_at[i]
        quotes  == IF missing THEN NoQuote ELSE quoted[i]
    IN  /\ Called
        /\ self.alive
        /\ missing => rng + self.N <= MaxDraws
        /\ mc' = [mc EXCEPT ![i] = self1]
        /\ rng' = IF missing THEN rng + self.N ELSE rng
        /\ own_draws' = IF missing THEN [own_draws EXCEPT ![i] = @ + self.N]
                                   ELSE own_draws
        /\ lazy_gens' = IF missing THEN [lazy_gens EXCEPT ![i] = @ + 1]
                                   ELSE lazy_gens
        /\ gen_at' = [gen_at EXCEPT ![i] = at]
        /\ IF MC_accepts(option_type)
           THEN LET option_price == MC_price(self1, option_type)
                IN  /\ ret' = Returned(<< option_price >>)
                    /\ quoted' = [quoted EXCEPT
                                    ![i] = [quotes EXCEPT ![option_type] =
                                                Append(@, option_price)]]
                    /\ first_query' =
                         IF first_query[i] # << >> THEN first_query
                         ELSE [first_query EXCEPT ![i] =
                                 << [option_type |-> option_type,
                                     price |-> option_price, at |-> at] >>]
           ELSE /\ ret' = Raised("ValueError")
                /\ quoted' = [quoted EXCEPT ![i] = quotes]
                /\ UNCHANGED first_query
        /\ UNCHANGED << bs, bt, frame, own_path_draws >>

\* obj.simulate_price_paths(num_time_steps)
MC_simulate_price_paths(i, num_time_steps) ==
    LET n == num_time_steps * mc[i].N
    IN  /\ Called
        /\ mc[i].alive
        /\ rng + n <= MaxDraws
        /\ mc' = [mc EXCEPT ![i] = WithPaths(mc[i], num_time_steps, rng)]
        /\ rng' = rng + n
        /\ own_draws' = [own_draws EXCEPT ![i] = @ + n]
        /\ own_path_draws' = [own_path_draws EXCEPT ![i] = @ + n]
        /\ ret' = Returned(<< >>)
        /\ UNCHANGED << bs, bt, frame, lazy_gens, gen_at, first_query, quoted >>

(***************************************************************************)
(* BlackScholesModel.py                                                    *)
(***************************************************************************)
NoBS == [alive |-> FALSE, S |-> 0, K |-> 0, T |-> 0, r |-> 0, sigma |-> 0,
         d1 |-> 0, d2 |-> 0]

\* BlackScholesModel.__init__ with _compute_d1_d2
BS_new(a) ==
    LET S == a.underlying_spot_price
        K == a.strike_price
        T == Div(ToFloat(a.days_to_maturity), ToFloat(DAYS_PER_YEAR))
        r == a.risk_free_rate
        sigma == a.sigma
        sqrt_T == Sqrt(T)
        sigma_sqrt_T == Mul(sigma, sqrt_T)
        log_SK == Ln(Div(S, K))
        d1 == Div(log_SK + Mul(r + Mul(HALF, Mul(sigma, sigma)), T), sigma_sqrt_T)
    IN  [alive |-> TRUE, S |-> S, K |-> K, T |-> T, r |-> r, sigma |-> sigma,
         d1 |-> d1, d2 |-> d1 - sigma_sqrt_T]

\* the if/elif of calculate_option_price prices this argument
BS_accepts(option_type) == option_type \in OPTION_TYPE

BS_price(self, option_type) ==
    IF option_type = "CALL_OPTION"
    THEN Mul(self.S, NormCdf(self.d1))
         - Mul(Mul(self.K, Exp(Mul(0 - self.r, self.T))), NormCdf(self.d2))
    ELSE Mul(Mul(self.K, Exp(Mul(0 - self.r, self.T))), NormCdf(0 - self.d2))
         - Mul(self.S, NormCdf(0 - self.d1))

\* the object after a price query
BS_after_query(self) == self

\* obj = BlackScholesModel(...)
BS_init(a) ==
    /\ pricing_method = "Black-Scholes"
    /\ Called
    /\ ~ bs.alive
    /\ bs' = BS_new(a)
    /\ ret' = Returned(<< >>)
    /\ UNCHANGED << bt, frame, mcvars >>

\* obj.calculate_option_price(option_type)
BS_calculate_option_price(option_type) ==
    /\ Called
    /\ bs.alive
    /\ ret' = IF BS_accepts(option_type)
              THEN Returned(<< BS_price(bs, option_type) >>)
              ELSE Raised("ValueError")
    /\ bs' = BS_after_query(bs)
    /\ UNCHANGED << bt, frame, mcvars >>

(***************************************************************************)
(* BinomialTreeModel.py                                                    *)
(***************************************************************************)
NoBT == [alive |-> FALSE, S |-> 0, K |-> 0, T |-> 0, r |-> 0, sigma |-> 0,
         N |-> 0, dT |-> 0, u |-> 0, d |-> 0, a |-> 0, p |-> 0, q |-> 0,
         discount |-> 0]

Idle == [pc |-> "idle", option_type |-> "none", V |-> << >>, n |-> 0]

\* the risk-neutral probability of an up move
UpProbability(a, u, d) == Div(a - d, u - d)

\* BinomialTreeModel.__init__
BT_new(args) ==
    LET T  == Div(ToFloat(args.days_to_maturity), ToFloat(DAYS_PER_YEAR))
        N  == args.number_of_time_steps
        dT == Div(T, ToFloat(N))
        u  == Exp(Mul(args.sigma, Sqrt(dT)))
        d  == Div(SCALE, u)
        a  == Exp(Mul(args.risk_free_rate, dT))
        p  == UpProbability(a, u, d)
    IN  [alive |-> TRUE, S |-> args.underlying_spot_price,
         K |-> args.strike_price, T |-> T, r |-> args.risk_free_rate,
         sigma |-> args.sigma, N |-> N, dT |-> dT, u |-> u, d |-> d, a |-> a,
         p |-> p, q |-> SCALE - p,
         discount |-> Exp(Mul(0 - args.risk_free_rate, dT))]

\* the if/elif of calculate_option_price prices this argument
BT_accepts(option_type) == option_type \in OPTION_TYPE

payoff_function(self, option_type, S) ==
    IF option_type = "CALL_OPTION" THEN Max(S - self.K, 0)
                                   ELSE Max(self.K - S, 0)

\* j = np.arange(N + 1): the indexes 0..N, kept at positions 1..N+1
TerminalNodes(self) == self.N + 1

\* the terminal nodes indexed by the number of up moves: S * u ** j * d ** (N - j)
BT_S_T_by_up_moves(self) ==
    [k \in 1..TerminalNodes(self) |->
        Mul(Mul(self.S, Pow(self.u, k - 1)), Pow(self.d, self.N - (k - 1)))]

\* S * u ** (N - j) * d ** j, for j = 0..N
BT_S_T(self) ==
    [k \in 1..TerminalNodes(self) |->
        Mul(Mul(self.S, Pow(self.u, self.N - (k - 1))), Pow(self.d, k - 1))]

\* discount * (p * V[:-1] + q * V[1:])
Induct(self, V) ==
    [k \in 1..(Len(V) - 1) |->
        Mul(self.discount, Mul(self.p, V[k]) + Mul(self.q, V[k + 1]))]

\* for _ in range(self.N - 1)
LoopContinues_short(self, n) == n < self.N - 1

\* the for loop of calculate_option_price goes round once more
LoopContinues(self, n) == n < self.N

\* obj = BinomialTreeModel(...)
BT_init(a) ==
    /\ pricing_method = "Binomial-Tree"
    /\ Called
    /\ ~ bt.alive
    /\ bt' = BT_new(a)
    /\ ret' = Returned(<< >>)
    /\ UNCHANGED << bs, frame, mcvars >>

\* obj.calculate_option_price(option_type), up to the for loop
BT_calculate_option_price(option_type) ==
    /\ Called
    /\ bt.alive
    /\ frame.pc = "idle"
    /\ IF BT_accepts(option_type)
       THEN /\ frame' = [pc |-> "loop", option_type |-> option_type,
                         V |-> [k \in 1..TerminalNodes(bt) |->
                                  payoff_function(bt, option_type, BT_S_T(bt)[k])],
                         n |-> 0]
            /\ ret' = NoReturn
       ELSE /\ frame' = Idle
            /\ ret' = Raised("ValueError")
    /\ UNCHANGED << bs, bt, mcvars >>

\* one iteration of the backward induction
BT_induct ==
    /\ frame.pc = "loop"
    /\ LoopContinues(bt, frame.n)
    /\ frame' = [frame EXCEPT !.V = Induct(bt, frame.V), !.n = @ + 1]
    /\ UNCHANGED << bs, bt, ret, calls, mcvars >>

\* return V[0]
BT_return ==
    /\ frame.pc = "loop"
    /\ ~ LoopContinues(bt, frame.n)
    /\ ret' = IF Len(frame.V) >= 1 THEN Returned(<< frame.V[1] >>)
                                   ELSE Raised("IndexError")
    /\ frame' = Idle
    /\ UNCHANGED << bs, bt, calls, mcvars >>

vars == << pricing_method, bs, bt, frame, rng, mc, ret, calls, lazy_gens, own_draws,
           own_path_draws, gen_at, first_query, quoted >>

Init ==
    /\ pricing_method \in OPTION_PRICING_MODEL
    /\ bs = NoBS
    /\ bt = NoBT
    /\ frame = Idle
    /\ rng = 0
    /\ mc = [i \in MCInst |-> NoObject]
    /\ ret = NoReturn
    /\ calls = 0
    /\ lazy_gens = [i \in MCInst |-> 0]
    /\ own_draws = [i \in MCInst |-> 0]
    /\ own_path_draws = [i \in MCInst |-> 0]
    /\ gen_at = [i \in MCInst |-> NoGen]
    /\ first_query = [i \in MCInst |-> << >>]
    /\ quoted = [i \in MCInst |-> NoQuote]

Next ==
    \/ \E a \in BSArgs : BS_init(a) /\ UNCHANGED pricing_method
    \/ \E t \in OptionArgs :
          BS_calculate_option_price(t) /\ UNCHANGED pricing_method
    \/ \E a \in BTArgs : BT_init(a) /\ UNCHANGED pricing_method
    \/ \E t \in OptionArgs :
          BT_calculate_option_price(t) /\ UNCHANGED pricing_method
    \/ BT_induct /\ UNCHANGED pricing_method
    \/ BT_return /\ UNCHANGED pricing_method
    \/ \E i \in MCInst, a \in MCArgs :
          MC_init(i, a) /\ UNCHANGED pricing_method
    \/ \E i \in MCInst :
          MC_simulate_terminal_prices(i) /\ UNCHANGED pricing_method
    \/ \E i \in MCInst, t \in OptionArgs :
          MC_calculate_option_price(i, t) /\ UNCHANGED pricing_method
    \/ \E i \in MCInst, k \in 1..MaxPathSteps :
          MC_simulate_price_paths(i, k) /\ UNCHANGED pricing_method

Spec == Init /\ [][Next]_vars

(***************************************************************************)
(* Properties                                                              *)
(***************************************************************************)
\* two objects were constructed with identical parameters
SameArgs(x, y) ==
    /\ x.S_0 = y.S_0 /\ x.K = y.K /\ x.T = y.T
    /\ x.r = y.r /\ x.sigma = y.sigma /\ x.N = y.N

\* the price obj returns when S_T is drawn with the generator at pos
PriceDrawnAt(self, pos, option_type) ==
    MC_price(WithTerminals(self, pos), option_type)

\* the step is a price query on the MonteCarloPricing object i
MC_query(i) == \E t \in OptionArgs : MC_calculate_option_price(i, t)

\* C1: two MonteCarloPricing objects constructed with identical parameters
\* return the identical price from their first price query of the same
\* option type, whatever was called in between.
C1_IdenticalRunsIdenticalPrices ==
    \A i, j \in MCInst :
        ( /\ first_query[i] # << >>
          /\ first_query[j] # << >>
          /\ SameArgs(mc[i], mc[j])
          /\ first_query[i][1].option_type = first_query[j][1].option_type )
        => first_query[i][1].price = first_query[j][1].price

\* C2: over any sequence of price queries on an object the terminal prices
\* are generated exactly once, by the first query that finds none; a query
\* that finds terminal prices neither replaces them nor draws variates.
C2_TerminalsGeneratedOnce ==
    [][ \A i \in MCInst :
          MC_query(i) =>
             /\ mc'[i].has_S_T
             /\ lazy_gens'[i] <= 1
             /\ IF mc[i].has_S_T
                THEN /\ mc'[i].S_T = mc[i].S_T
                     /\ lazy_gens'[i] = lazy_gens[i]
                     /\ rng' = rng
                ELSE /\ lazy_gens'[i] = lazy_gens[i] + 1
                     /\ Len(mc'[i].S_T) = mc[i].N ]_vars

\* C2 witness: one lazy generation served a call query and a put query
C2_Witness ==
    \E i \in MCInst :
        /\ lazy_gens[i] = 1
        /\ quoted[i]["CALL_OPTION"] # << >>
        /\ quoted[i]["PUT_OPTION"] # << >>

\* C3: all the prices an object returned for one option type since its
\* terminal prices were last generated are the same value, whatever was
\* called in between.
C3_RepeatedQueriesAgree ==
    \A i \in MCInst, t \in OPTION_TYPE :
        \A k \in 1..Len(quoted[i][t]) : quoted[i][t][k] = quoted[i][t][1]

\* C3 witness: a repeated query on an object whose paths were simulated
\* after its terminal prices, with another object constructed as well
C3_Witness ==
    \E i, j \in MCInst, t \in OPTION_TYPE :
        /\ i # j /\ mc[j].alive
        /\ Len(quoted[i][t]) >= 2
        /\ mc[i].has_price_paths
        /\ gen_at[i].own_paths = 0
        /\ ret.value = << quoted[i][t][1] >>

\* C4: with no other object in the process, the first price an object
\* returns is the price it returns when simulate_price_paths is never
\* called on it.
C4_PriceIndependentOfPaths ==
    \A i \in MCInst :
        ( /\ first_query[i] # << >>
          /\ \A j \in MCInst \ {i} : ~ mc[j].alive )
        => LET f == first_query[i][1]
           IN  f.price = PriceDrawnAt(mc[i], f.at.own - f.at.own_paths,
                                      f.option_type)

\* the step is a price query with an argument outside OPTION_TYPE
InvalidQuery ==
    \E t \in OptionArgs \ OPTION_TYPE :
        \/ BS_calculate_option_price(t)
        \/ BT_calculate_option_price(t)
        \/ \E i \in MCInst : MC_calculate_option_price(i, t)

\* C5: in every engine and every object state, a price query with an
\* argument that is neither CALL_OPTION nor PUT_OPTION raises ValueError
\* and returns no price.
C5_InvalidOptionTypeRaises ==
    [][ InvalidQuery => ret' = Raised("ValueError") /\ frame' = Idle ]_vars

\* C5 witness: the query was refused by an object whose terminal prices had
\* been generated by an explicit simulate_terminal_prices
C5_Witness ==
    \E i \in MCInst :
        /\ ret = Raised("ValueError")
        /\ mc[i].has_S_T
        /\ lazy_gens[i] = 0
        /\ \A j \in MCInst \ {i} : ~ mc[j].alive

\* C6: the first price an object returns is the price it returns when its
\* own calls are the only calls made in the process.
C6_NoSharedState ==
    \A i \in MCInst :
        first_query[i] # << >>
        => LET f == first_query[i][1]
           IN  f.price = PriceDrawnAt(mc[i], f.at.own, f.option_type)

\* C7: every price a query returns, in every engine, is non-negative.
C7_PricesNonNegative ==
    (ret.outcome = "return" /\ ret.value # << >>) => ret.value[1] >= 0

\* C8: the risk-neutral probabilities of every constructed tree satisfy
\* 0 <= p <= 1, 0 <= q <= 1 and p + q = 1.
C8_ProbabilitiesInUnitInterval ==
    bt.alive =>
        /\ 0 <= bt.p /\ bt.p <= SCALE
        /\ 0 <= bt.q /\ bt.q <= SCALE
        /\ bt.p + bt.q = SCALE

\* the attributes of a MonteCarloPricing object other than S_T
MC_frame(self) ==
    << self.alive, self.S_0, self.K, self.T, self.r, self.sigma, self.N,
       self.discount_factor, self.has_price_paths, self.price_paths >>

\* C9: a price query leaves every attribute of a BlackScholesModel and of a
\* BinomialTreeModel unchanged, and of a MonteCarloPricing object every
\* attribute but S_T, which it sets only when it did not exist; it changes
\* no other object.
C9_QueriesDoNotMutate ==
    [][ /\ (\E t \in OptionArgs : BS_calculate_option_price(t)) => bs' = bs
        /\ ( \/ \E t \in OptionArgs : BT_calculate_option_price(t)
             \/ BT_induct
             \/ BT_return ) => bt' = bt
        /\ \A i \in MCInst :
              MC_query(i) =>
                 /\ MC_frame(mc'[i]) = MC_frame(mc[i])
                 /\ mc[i].has_S_T => mc'[i] = mc[i]
                 /\ \A j \in MCInst \ {i} : mc'[j] = mc[j] ]_vars

\* C9 witness: a query priced an object that had paths but no terminal prices
C9_Witness ==
    \E i \in MCInst :
        /\ lazy_gens[i] = 1
        /\ mc[i].has_price_paths
        /\ gen_at[i].own_paths > 0
        /\ ret.outcome = "return" /\ ret.value # << >>

\* C10: a tree query starts the induction with N + 1 node values, every
\* iteration turns n + 1 values into the n values of the adjacent pairs, and
\* after exactly N iterations the one value left is returned.
C10_InductionShape ==
    [][ /\ \A t \in OPTION_TYPE :
              BT_calculate_option_price(t) =>
                 frame'.n = 0 /\ Len(frame'.V) = bt.N + 1
        /\ BT_induct =>
              /\ frame'.n = frame.n + 1
              /\ Len(frame'.V) = Len(frame.V) - 1
              /\ Len(frame'.V) = bt.N + 1 - frame'.n
              /\ \A k \in 1..Len(frame'.V) :
                    frame'.V[k] =
                       Mul(bt.discount,
                           Mul(bt.p, frame.V[k]) + Mul(bt.q, frame.V[k + 1]))
        /\ BT_return =>
              /\ frame.n = bt.N
              /\ Len(frame.V) = 1
              /\ ret' = Returned(<< frame.V[1] >>) ]_vars

\* C10 witness: a tree of the most steps returned a price
C10_Witness ==
    /\ bt.alive /\ bt.N >= 2
    /\ frame.pc = "idle"
    /\ ret.outcome = "return" /\ ret.value # << >>

\* the one-period binomial price: discount * (p * payoff(S u) + q * payoff(S d))
OnePeriodPrice(self, option_type) ==
    Mul(self.discount,
        Mul(self.p, payoff_function(self, option_type, Mul(self.S, self.u)))
        + Mul(self.q, payoff_function(self, option_type, Mul(self.S, self.d))))

\* C11: the price a tree of N = 1 returns is the one-period binomial price,
\* with p on the payoff of the up node S u and q on that of the down node S d.
C11_OnePeriodFormula ==
    [][ (BT_return /\ bt.N = 1) =>
           ret' = Returned(<< OnePeriodPrice(bt, frame.option_type) >>) ]_vars

\* C11 witness: a one-step tree returned a price that is not zero
C11_Witness ==
    /\ bt.alive /\ bt.N = 1
    /\ frame.pc = "idle"
    /\ ret.outcome = "return" /\ ret.value # << >>
    /\ ret.value[1] # 0

\* S[t - 1] * exp((r - 0.5 sigma^2) dt + sigma sqrt(dt) z) for one path
PathStep(self, dt, prev, z) ==
    Mul(prev,
        Exp(Mul(self.r - Mul(HALF, Mul(self.sigma, self.sigma)), dt)
            + Mul(Mul(self.sigma, Sqrt(dt)), z)))

\* C12: simulate_price_paths(steps) stores a matrix of steps + 1 rows and
\* M columns whose row 0 is the spot price in every column and whose entry
\* in row t and column c is made from the entry of row t - 1 in column c and
\* the variate Z[t - 1][c] of that column alone; the matrix replaces the one
\* stored before and the terminal prices are left as they were.
C12_PathMatrix ==
    [][ \A i \in MCInst, steps \in 1..MaxPathSteps :
          MC_simulate_price_paths(i, steps) =>
             LET self == mc[i]
                 M    == self.N
                 S    == mc'[i].price_paths
                 dt   == Div(self.T, ToFloat(steps))
             IN  /\ mc'[i].has_price_paths
                 /\ Len(S) = steps + 1
                 /\ \A t \in 1..(steps + 1) : Len(S[t]) = M
                 /\ \A c \in 1..M : S[1][c] = self.S_0
                 /\ \A t \in 1..steps, c \in 1..M :
                       S[t + 1][c] =
                          PathStep(self, dt, S[t][c],
                                   SeededStream[rng + (t - 1) * M + c])
                 /\ mc'[i].has_S_T = self.has_S_T
                 /\ mc'[i].S_T = self.S_T ]_vars

\* C12 witness: an object with terminal prices simulated its paths a second
\* time, with more steps than the first time
C12_Witness ==
    \E i \in MCInst :
        /\ mc[i].has_S_T
        /\ gen_at[i].own_paths = 0
        /\ mc[i].has_price_paths
        /\ Len(mc[i].price_paths) = 3
        /\ own_path_draws[i] > 2 * mc[i].N
        /\ ret = Returned(<< >>)

\* C13: a price query generates the missing terminal prices before it looks
\* at the option type: a query with an argument outside OPTION_TYPE on an
\* object without terminal prices draws and stores them and then raises
\* ValueError; after every price query the object has terminal prices; and a
\* valid query on an object with terminal prices prices from exactly those,
\* drawing nothing.
C13_GenerationBeforeValidation ==
    [][ \A i \in MCInst :
          /\ \A t \in OptionArgs \ OPTION_TYPE :
                (MC_calculate_option_price(i, t) /\ ~ mc[i].has_S_T) =>
                   /\ ret' = Raised("ValueError")
                   /\ mc'[i].has_S_T
                   /\ mc'[i].S_T =
                        TerminalPrices(mc[i], standard_normal(rng, mc[i].N))
                   /\ rng' = rng + mc[i].N
          /\ MC_query(i) => mc'[i].has_S_T
          /\ \A t \in OPTION_TYPE :
                (MC_calculate_option_price(i, t) /\ mc[i].has_S_T) =>
                   /\ mc'[i].S_T = mc[i].S_T
                   /\ rng' = rng
                   /\ ret' = Returned(<< MC_price(mc[i], t) >>) ]_vars

\* C13 witness: the only object of the process was constructed, generated its
\* terminal prices in a query that raised, and then returned its one price
C13_Witness ==
    \E i \in MCInst, t \in OPTION_TYPE :
        /\ \A j \in MCInst \ {i} : ~ mc[j].alive
        /\ calls = 3
        /\ lazy_gens[i] = 1
        /\ own_draws[i] = mc[i].N
        /\ Len(quoted[i][t]) = 1
        /\ \A t2 \in OPTION_TYPE \ {t} : quoted[i][t2] = << >>
        /\ ret = Returned(<< quoted[i][t][1] >>)

=============================================================================
